---- MODULE Spec2Model ----
(***************************************************************************)
(* Model of argononed.py: the Argon ONE fan daemon.  Processes run main()  *)
(* (one SERVICE process and one one-shot command process), each with its   *)
(* own FanController; the fan register, the state file and the config file *)
(* are shared between the processes.                                       *)
(*                                                                         *)
(* Temperatures are integers in units of 1/Res degree.  An optional value  *)
(* (Python None or an int) is a sequence of length 0 or 1.  File contents  *)
(* and command-line words are sequences of one-character strings.          *)
(***************************************************************************)
EXTENDS Integers, Sequences, FiniteSets, TLC

\* ------------------------------------------------------------------ bounds
\* Temperature resolution: units per degree.
Res == 2
\* Lines of the generated config files.
MaxLines == 2
\* Service-loop iterations explored.
MaxTicks == 2
\* Temperature range (degrees) explored for calc_target.
MinDeg == 40
MaxDeg == 72

\* --------------------------------------------------------------- constants
HYSTERESIS == 4
DutyMin == 0
DutyMax == 100

Hyst == HYSTERESIS * Res
Deg(d) == d * Res

None == <<>>
Some(v) == <<v>>
Val(o) == o[1]
IsNone(o) == o = <<>>

\* ------------------------------------------------------------- text <-> int
Digits == <<"0", "1", "2", "3", "4", "5", "6", "7", "8", "9">>
IsDigit(c) == \E i \in 1..10 : Digits[i] = c
DigitVal(c) == (CHOOSE i \in 1..10 : Digits[i] = c) - 1
IsSpace(c) == c \in {" ", "\n"}

RECURSIVE StrNat(_)
StrNat(n) == IF n < 10 THEN <<Digits[n + 1]>>
             ELSE StrNat(n \div 10) \o <<Digits[(n % 10) + 1]>>

\* str(speed)
Str(n) == IF n < 0 THEN <<"-">> \o StrNat(-n) ELSE StrNat(n)

RECURSIVE LStrip(_)
LStrip(t) == IF t # <<>> /\ IsSpace(Head(t)) THEN LStrip(Tail(t)) ELSE t

RECURSIVE RStrip(_)
RStrip(t) == IF t # <<>> /\ IsSpace(t[Len(t)])
             THEN RStrip(SubSeq(t, 1, Len(t) - 1)) ELSE t

\* str.strip()
Strip(t) == RStrip(LStrip(t))

RECURSIVE NatOf(_, _)
NatOf(t, acc) == IF t = <<>> THEN acc
                 ELSE NatOf(Tail(t), acc * 10 + DigitVal(Head(t)))

AllDigits(t) == t # <<>> /\ \A i \in 1..Len(t) : IsDigit(t[i])

\* int(text): None stands for ValueError
ParseInt(text) ==
    LET t == Strip(text)
    IN  IF t # <<>> /\ Head(t) \in {"-", "+"}
        THEN IF AllDigits(Tail(t))
             THEN Some((IF Head(t) = "-" THEN -1 ELSE 1) * NatOf(Tail(t), 0))
             ELSE None
        ELSE IF AllDigits(t) THEN Some(NatOf(t, 0)) ELSE None

\* ------------------------------------------------------------------- files
NoFile == [exists |-> FALSE, text |-> <<>>]
File(t) == [exists |-> TRUE, text |-> t]

\* read_state(): the int in the state file, None on any exception
read_state(f) == IF f.exists THEN ParseInt(f.text) ELSE None

\* write_state(speed): the file after the write; a failed open or write is
\* swallowed and leaves the file as it was
write_state(f, speed, ok) == IF ok THEN File(Str(speed)) ELSE f

\* read_cpu_temp(): the sensor reading, 0.0 on any exception
read_cpu_temp(sensor) == IF IsNone(sensor) THEN 0 ELSE Val(sensor)

\* ------------------------------------------------------------- step table
Step(t, s) == [temp_c |-> t, speed |-> s]

DefaultSteps == << Step(Deg(45), 20), Step(Deg(50), 35), Step(Deg(55), 55),
                   Step(Deg(60), 75), Step(Deg(65), 100) >>

\* One config line after strip(): blank, a comment, or its "="-separated
\* fields.  A field is an integer literal ("int"), a decimal literal with a
\* zero fraction ("dec": float() accepts it, int() does not) or junk.
Blank == [kind |-> "blank", fields |-> <<>>]
Comment == [kind |-> "comment", fields |-> <<>>]
Fields(fs) == [kind |-> "fields", fields |-> fs]
IntLit(v) == [k |-> "int", v |-> v]
DecLit(v) == [k |-> "dec", v |-> v]
Junk == [k |-> "junk", v |-> 0]

FloatOk(f) == f.k \in {"int", "dec"}
IntOk(f) == f.k = "int"

\* the body of the try block: t, s = line.split("="); Step(float(t), int(s))
LineStep(line) ==
    IF line.kind = "fields" /\ Len(line.fields) = 2
       /\ FloatOk(line.fields[1]) /\ IntOk(line.fields[2])
    THEN Some(Step(Deg(line.fields[1].v), line.fields[2].v))
    ELSE None

RECURSIVE ReadLines(_)
ReadLines(lines) ==
    IF lines = <<>> THEN <<>>
    ELSE LineStep(Head(lines)) \o ReadLines(Tail(lines))

\* list.sort(key=temp_c): stable insertion
RECURSIVE Insert(_, _)
Insert(st, sorted) ==
    IF sorted = <<>> THEN <<st>>
    ELSE IF Head(sorted).temp_c <= st.temp_c
         THEN <<Head(sorted)>> \o Insert(st, Tail(sorted))
         ELSE <<st>> \o sorted

RECURSIVE SortSteps(_)
SortSteps(ss) ==
    IF ss = <<>> THEN <<>>
    ELSE LET n == Len(ss)
         IN  Insert(ss[n], SortSteps(SubSeq(ss, 1, n - 1)))

parse_conf(cf) ==
    IF ~cf.exists THEN DefaultSteps ELSE SortSteps(ReadLines(cf.lines))

\* ------------------------------------------------------------- calc_target
\* a slip at the boundary: a step counts only above its threshold
RECURSIVE ScanAbove(_, _, _)
ScanAbove(t, ss, tgt) ==
    IF ss = <<>> THEN tgt
    ELSE ScanAbove(t, Tail(ss),
                   IF t > Head(ss).temp_c THEN Head(ss).speed ELSE tgt)

\* the for loop: a later step whose threshold is reached overwrites target
RECURSIVE Scan(_, _, _)
Scan(t, ss, tgt) ==
    IF ss = <<>> THEN tgt
    ELSE Scan(t, Tail(ss), IF t >= Head(ss).temp_c THEN Head(ss).speed ELSE tgt)

\* next((s.temp_c for s in steps if s.speed == sp), temp)
RECURSIVE FirstTemp(_, _, _)
FirstTemp(ss, sp, dflt) ==
    IF ss = <<>> THEN dflt
    ELSE IF Head(ss).speed = sp THEN Head(ss).temp_c
         ELSE FirstTemp(Tail(ss), sp, dflt)

\* a slip of sign: the margin added to the threshold
RiseBoundPlus(t, ss, tgt) == FirstTemp(ss, tgt, t) + Hyst

\* the threshold an increase is held back under: that of the target's step
\* less the margin
RiseBound(t, ss, tgt) == FirstTemp(ss, tgt, t) - Hyst

\* the margin taken off the threshold, as for a band under it
FallBoundMinus(t, ss, last) == FirstTemp(ss, last, t) - Hyst

\* the threshold a decrease is held back over: that of the last speed's step
\* plus the margin
FallBound(t, ss, last) == FirstTemp(ss, last, t) + Hyst

calc_target(t, ss, last) ==
    LET tgt == Scan(t, ss, 0)
    IN  IF IsNone(last) THEN tgt
        ELSE IF tgt > Val(last) /\ t < RiseBound(t, ss, tgt) THEN Val(last)
        ELSE IF tgt < Val(last) /\ t > FallBound(t, ss, Val(last)) THEN Val(last)
        ELSE tgt

\* the upper limit left out: max(0, speed)
ClampLow(n) == IF n < DutyMin THEN DutyMin ELSE n

\* max(0, min(100, speed))
Clamp(n) == IF n > DutyMax THEN DutyMax ELSE IF n < DutyMin THEN DutyMin ELSE n

\* ------------------------------------------------------------- the system
Svc == "svc"
Cli == "cli"
Procs == {Svc, Cli}

VARIABLES
    conf,        \* /etc/argononed.conf
    stateFile,   \* /run/argononed.last_speed
    fanReg,      \* register FAN_REG of the fan controller on the I2C bus
    argv,        \* per process: sys.argv[1:]
    pc,          \* per process: where it is in main()
    exitCode,    \* per process: optional exit status
    busOpen,     \* per process: SMBus handles open
    steps,       \* per process: the step table parse_conf returned
    last_speed,  \* per process: FanController.last_speed
    lock,        \* per process: FanController.lock is held
    stop,        \* per process: run_service's stop flag
    temp,        \* per process: the sample of this iteration
    req,         \* per process: the argument set_speed is called with
    speed,       \* per process: set_speed's local after clamping
    call,        \* per process: what the current or last set_speed call did
    prev,        \* per process: what the call before it did, if it returned
    ticks,       \* iterations the service loop has started
    hover,       \* thresholds every sample so far lies within the margin of
    lastChange   \* the service's last change of speed, [from, to]

vars == << conf, stateFile, fanReg, argv, pc, exitCode, busOpen, steps,
           last_speed, lock, stop, temp, req, speed, call, prev, ticks,
           hover, lastChange >>

envVars == << conf, argv >>
histVars == << hover, lastChange >>

NoCall == [req |-> 0, pre |-> None, hw |-> None, stTried |-> FALSE,
           st |-> None, lg |-> None, out |-> "idle"]

\* str.upper() of the command word
upper(w) ==
    CASE w = "service" -> "SERVICE"
      [] w = "fanon" -> "FANON"
      [] w = "fanoff" -> "FANOFF"
      [] w = "fanspeed" -> "FANSPEED"
      [] w = "status" -> "STATUS"
      [] OTHER -> w

\* sys.argv[1].upper(); the empty word when there is none
Cmd(p) == IF Len(argv[p]) < 1 THEN "" ELSE upper(argv[p][1])

\* ------------------------------------------------------------------ inputs
ConfFiles ==
    { [exists |-> FALSE, lines |-> <<>>],
      [exists |-> TRUE,
       lines |-> << Comment, Blank, Fields(<<Junk, IntLit(50)>>),
                    Fields(<<IntLit(50)>>),
                    Fields(<<IntLit(50), DecLit(35)>>) >>],
      [exists |-> TRUE,
       lines |-> << Fields(<<IntLit(60), IntLit(80)>>), Comment,
                    Fields(<<DecLit(50), IntLit(150)>>),
                    Fields(<<IntLit(70), IntLit(30)>>),
                    Fields(<<IntLit(45), IntLit(30)>>),
                    Fields(<<IntLit(1), IntLit(2), IntLit(3)>>) >>] }

StateFiles ==
    { NoFile, File(<<"o", "n">>), File(<<"3", "5", "\n">>),
      File(<<"1", "5", "0">>) }

CliArgvs ==
    { <<>>, <<"bogus">>, <<"fanon">>, <<"FANOFF">>, <<"STATUS">>,
      <<"FANSPEED">>, <<"FANSPEED", <<"5", "5">> >>,
      <<"FANSPEED", <<"1", "5", "0">> >>, <<"FANSPEED", <<"-", "5">> >> }

\* what the sensor file yields in the service loop: unreadable, or a reading
LoopSensors == { None, Some(Deg(49)), Some(Deg(50)) }

AllSensors == { None } \cup { Some(t) : t \in Deg(MinDeg)..Deg(MaxDeg) }

Init ==
    /\ conf \in ConfFiles
    /\ stateFile \in StateFiles
    /\ fanReg = None
    /\ argv \in { [p \in Procs |-> IF p = Svc THEN <<"SERVICE">> ELSE a] :
                  a \in CliArgvs }
    /\ pc = [p \in Procs |-> "main"]
    /\ exitCode = [p \in Procs |-> None]
    /\ busOpen = [p \in Procs |-> 0]
    /\ steps = [p \in Procs |-> <<>>]
    /\ last_speed = [p \in Procs |-> None]
    /\ lock = [p \in Procs |-> FALSE]
    /\ stop = [p \in Procs |-> FALSE]
    /\ temp = [p \in Procs |-> 0]
    /\ req = [p \in Procs |-> 0]
    /\ speed = [p \in Procs |-> 0]
    /\ call = [p \in Procs |-> NoCall]
    /\ prev = [p \in Procs |-> None]
    /\ ticks = 0
    /\ hover = {}
    /\ lastChange = None

\* ----------------------------------------------------------------- main()
\* lines 145-146: no command word
MainStart(p) ==
    /\ pc[p] = "main"
    /\ IF Len(argv[p]) < 1
       THEN /\ pc' = [pc EXCEPT ![p] = "exit"]
            /\ exitCode' = [exitCode EXCEPT ![p] = Some(2)]
       ELSE /\ pc' = [pc EXCEPT ![p] = "main_fan"]
            /\ UNCHANGED exitCode
    /\ UNCHANGED << envVars, stateFile, fanReg, busOpen, steps, last_speed,
                    lock, stop, temp, req, speed, call, prev, ticks, histVars >>

\* line 149, FanController(): the bus opens and last_speed is read from the
\* state file, or the constructor raises outside main's try block
MainFan(p, ok) ==
    /\ pc[p] = "main_fan"
    /\ IF ok
       THEN /\ busOpen' = [busOpen EXCEPT ![p] = @ + 1]
            /\ last_speed' = [last_speed EXCEPT ![p] = read_state(stateFile)]
            /\ pc' = [pc EXCEPT ![p] = "dispatch"]
            /\ UNCHANGED exitCode
       ELSE /\ pc' = [pc EXCEPT ![p] = "exit"]
            /\ exitCode' = [exitCode EXCEPT ![p] = Some(1)]
            /\ UNCHANGED << busOpen, last_speed >>
    /\ UNCHANGED << envVars, stateFile, fanReg, steps, lock, stop, temp, req,
                    speed, call, prev, ticks, histVars >>

\* lines 152-159 and 165-166: the command word selects the branch
Dispatch(p) ==
    /\ pc[p] = "dispatch"
    /\ Cmd(p) \in {"SERVICE", "FANON", "FANOFF", "FANSPEED"}
    /\ LET arg == IF Len(argv[p]) < 2 THEN None ELSE ParseInt(argv[p][2])
       IN  CASE Cmd(p) = "SERVICE" ->
                  /\ pc' = [pc EXCEPT ![p] = "run_service"]
                  /\ UNCHANGED req
             [] Cmd(p) = "FANON" ->
                  /\ pc' = [pc EXCEPT ![p] = "set_speed"]
                  /\ req' = [req EXCEPT ![p] = 100]
             [] Cmd(p) = "FANOFF" ->
                  /\ pc' = [pc EXCEPT ![p] = "set_speed"]
                  /\ req' = [req EXCEPT ![p] = 0]
             [] Cmd(p) = "FANSPEED" /\ ~IsNone(arg) ->
                  /\ pc' = [pc EXCEPT ![p] = "set_speed"]
                  /\ req' = [req EXCEPT ![p] = Val(arg)]
             [] Cmd(p) = "FANSPEED" /\ IsNone(arg) ->
                  \* IndexError or ValueError from int(sys.argv[2])
                  /\ pc' = [pc EXCEPT ![p] = "raised"]
                  /\ UNCHANGED req
    /\ UNCHANGED << envVars, stateFile, fanReg, exitCode, busOpen, steps,
                    last_speed, lock, stop, temp, speed, call, prev, ticks,
                    histVars >>

\* lines 165-166: any other command word returns 2 through the finally block
Unknown(p) ==
    /\ pc[p] = "dispatch"
    /\ Cmd(p) \notin {"SERVICE", "FANON", "FANOFF", "FANSPEED", "STATUS"}
    /\ pc' = [pc EXCEPT ![p] = "main_finally"]
    /\ exitCode' = [exitCode EXCEPT ![p] = Some(2)]
    /\ UNCHANGED << envVars, stateFile, fanReg, busOpen, steps, last_speed,
                    lock, stop, temp, req, speed, call, prev, ticks, histVars >>

\* lines 160-164: STATUS reports a target and writes nothing
Status(p, sensor) ==
    /\ pc[p] = "dispatch"
    /\ Cmd(p) = "STATUS"
    /\ temp' = [temp EXCEPT ![p] = read_cpu_temp(sensor)]
    /\ steps' = [steps EXCEPT ![p] = parse_conf(conf)]
    /\ req' = [req EXCEPT ![p] =
                  calc_target(temp'[p], steps'[p], last_speed[p])]
    /\ pc' = [pc EXCEPT ![p] = "main_finally"]
    /\ UNCHANGED << envVars, stateFile, fanReg, exitCode, busOpen, last_speed,
                    lock, stop, speed, call, prev, ticks, histVars >>

\* lines 167-170: fan.close(), then return 0 unless 2 was returned
MainFinally(p) ==
    /\ pc[p] = "main_finally"
    /\ busOpen' = [busOpen EXCEPT ![p] = @ - 1]
    /\ exitCode' = [exitCode EXCEPT
                      ![p] = IF IsNone(@) THEN Some(0) ELSE @]
    /\ pc' = [pc EXCEPT ![p] = "exit"]
    /\ UNCHANGED << envVars, stateFile, fanReg, steps, last_speed, lock, stop,
                    temp, req, speed, call, prev, ticks, histVars >>

\* an exception leaves through every finally block it is inside (lines 140-141
\* and 167-168); the interpreter ends the process with status 1
Propagate(p) ==
    /\ pc[p] = "raised"
    /\ busOpen' = [busOpen EXCEPT ![p] = 0]
    /\ exitCode' = [exitCode EXCEPT ![p] = Some(1)]
    /\ pc' = [pc EXCEPT ![p] = "exit"]
    /\ UNCHANGED << envVars, stateFile, fanReg, steps, last_speed, lock, stop,
                    temp, req, speed, call, prev, ticks, histVars >>

\* ---------------------------------------------------------- run_service()
Thresholds(ss) == { ss[i].temp_c : i \in 1..Len(ss) }
Near(t, th) == t >= th - Hyst /\ t <= th + Hyst

\* lines 123-132: the table is parsed, a second FanController is built and
\* the handlers are installed; a constructor that raises leaves through
\* main's finally block
RunService(p, ok) ==
    /\ pc[p] = "run_service"
    /\ steps' = [steps EXCEPT ![p] = parse_conf(conf)]
    /\ hover' = Thresholds(steps'[p])
    /\ IF ok
       THEN /\ busOpen' = [busOpen EXCEPT ![p] = @ + 1]
            /\ last_speed' = [last_speed EXCEPT ![p] = read_state(stateFile)]
            /\ pc' = [pc EXCEPT ![p] = "loop"]
       ELSE /\ pc' = [pc EXCEPT ![p] = "raised"]
            /\ UNCHANGED << busOpen, last_speed >>
    /\ UNCHANGED << envVars, stateFile, fanReg, exitCode, lock, stop, temp,
                    req, speed, call, prev, ticks, lastChange >>

\* while True: the flag is not read at the top of the iteration
ServiceTickAnyway(p, sensor) ==
    /\ pc[p] = "loop"
    /\ ticks < MaxTicks
    /\ ticks' = ticks + 1
    /\ temp' = [temp EXCEPT ![p] = read_cpu_temp(sensor)]
    /\ req' = [req EXCEPT ![p] = calc_target(temp'[p], steps[p], last_speed[p])]
    /\ hover' = { th \in hover : Near(temp'[p], th) }
    /\ pc' = [pc EXCEPT ![p] = "set_speed"]
    /\ UNCHANGED << envVars, stateFile, fanReg, exitCode, busOpen, steps,
                    last_speed, lock, stop, speed, call, prev, lastChange >>

\* lines 135-138: the flag is read at the top of the iteration, then the
\* sample is taken and the target computed from the controller's last_speed
ServiceTick(p, sensor) ==
    /\ pc[p] = "loop"
    /\ ~stop[p]
    /\ ticks < MaxTicks
    /\ ticks' = ticks + 1
    /\ temp' = [temp EXCEPT ![p] = read_cpu_temp(sensor)]
    /\ req' = [req EXCEPT ![p] = calc_target(temp'[p], steps[p], last_speed[p])]
    /\ hover' = { th \in hover : Near(temp'[p], th) }
    /\ pc' = [pc EXCEPT ![p] = "set_speed"]
    /\ UNCHANGED << envVars, stateFile, fanReg, exitCode, busOpen, steps,
                    last_speed, lock, stop, speed, call, prev, lastChange >>

\* line 139: time.sleep(POLL_SECONDS) runs its full length
Sleep(p) ==
    /\ pc[p] = "sleep"
    /\ pc' = [pc EXCEPT ![p] = "loop"]
    /\ UNCHANGED << envVars, stateFile, fanReg, exitCode, busOpen, steps,
                    last_speed, lock, stop, temp, req, speed, call, prev,
                    ticks, histVars >>

\* lines 135 and 140-141: the flag is set, the loop ends and the service's
\* controller is closed
ServiceStop(p) ==
    /\ pc[p] = "loop"
    /\ stop[p]
    /\ busOpen' = [busOpen EXCEPT ![p] = @ - 1]
    /\ pc' = [pc EXCEPT ![p] = "main_finally"]
    /\ UNCHANGED << envVars, stateFile, fanReg, exitCode, steps, last_speed,
                    lock, stop, temp, req, speed, call, prev, ticks,
                    histVars >>

HandlersInstalled(p) ==
    pc[p] \in {"loop", "set_speed", "hw_write", "persist", "sleep"}

\* lines 127-132: SIGTERM or SIGINT sets the flag once the handlers are
\* installed
Signal(p) ==
    /\ Cmd(p) = "SERVICE"
    /\ HandlersInstalled(p)
    /\ ~stop[p]
    /\ stop' = [stop EXCEPT ![p] = TRUE]
    /\ UNCHANGED << envVars, stateFile, fanReg, pc, exitCode, busOpen, steps,
                    last_speed, lock, temp, req, speed, call, prev, ticks,
                    histVars >>

\* --------------------------------------------------- FanController.set_speed
\* where set_speed returns to: the sleep of the loop, or main's finally block
Return(p) == IF Cmd(p) = "SERVICE" THEN "sleep" ELSE "main_finally"

Returned(c) == [c EXCEPT !.out = "returned"]

\* a comparison that never matches, as of an int with the file's text
SameSpeedNever(last, sp) == FALSE

\* line 92: self.last_speed == speed
SameSpeed(last, sp) == last = Some(sp)

\* the update left out: last_speed keeps its old value
NewLastStale(p) == last_speed[p]

\* line 95: self.last_speed = speed
NewLast(p) == Some(speed[p])

\* lines 90-93: the argument is clamped, the lock taken and last_speed
\* compared; an equal value returns at once, releasing the lock
SetSpeedEnter(p) ==
    /\ pc[p] = "set_speed"
    /\ ~lock[p]
    /\ speed' = [speed EXCEPT ![p] = Clamp(req[p])]
    /\ prev' = [prev EXCEPT ![p] =
                  IF call[p].out = "returned"
                  THEN Some([speed |-> speed[p],
                             same |-> call[p].pre = Some(speed[p]),
                             hw |-> Len(call[p].hw),
                             st |-> IF call[p].stTried THEN 1 ELSE 0])
                  ELSE None]
    /\ LET c == [NoCall EXCEPT !.req = req[p], !.pre = last_speed[p],
                               !.out = "running"]
       IN  IF SameSpeed(last_speed[p], speed'[p])
           THEN /\ call' = [call EXCEPT ![p] = Returned(c)]
                /\ pc' = [pc EXCEPT ![p] = Return(p)]
                /\ UNCHANGED lock
           ELSE /\ call' = [call EXCEPT ![p] = c]
                /\ pc' = [pc EXCEPT ![p] = "hw_write"]
                /\ lock' = [lock EXCEPT ![p] = TRUE]
    /\ UNCHANGED << envVars, stateFile, fanReg, exitCode, busOpen, steps,
                    last_speed, stop, temp, req, ticks, histVars >>

\* lines 94 and 95 swapped: last_speed is updated before the register write
HwWriteEarly(p, ok) ==
    /\ pc[p] = "hw_write"
    /\ last_speed' = [last_speed EXCEPT ![p] = Some(speed[p])]
    /\ IF ok
       THEN /\ fanReg' = Some(speed[p])
            /\ call' = [call EXCEPT ![p].hw = Some(speed[p])]
            /\ lastChange' =
                 IF p = Svc /\ ~IsNone(last_speed[p])
                 THEN Some([from |-> Val(last_speed[p]), to |-> speed[p]])
                 ELSE lastChange
            /\ pc' = [pc EXCEPT ![p] = "persist"]
            /\ UNCHANGED lock
       ELSE /\ call' = [call EXCEPT ![p].out = "raised"]
            /\ lock' = [lock EXCEPT ![p] = FALSE]
            /\ pc' = [pc EXCEPT ![p] = "raised"]
            /\ UNCHANGED << fanReg, lastChange >>
    /\ UNCHANGED << envVars, stateFile, exitCode, busOpen, steps, stop, temp,
                    req, speed, prev, ticks, hover >>

\* the lock taken with acquire() and released only on the normal path
HwWriteKeepsLock(p, ok) ==
    /\ pc[p] = "hw_write"
    /\ IF ok
       THEN /\ fanReg' = Some(speed[p])
            /\ last_speed' = [last_speed EXCEPT ![p] = Some(speed[p])]
            /\ call' = [call EXCEPT ![p].hw = Some(speed[p])]
            /\ lastChange' =
                 IF p = Svc /\ ~IsNone(last_speed[p])
                 THEN Some([from |-> Val(last_speed[p]), to |-> speed[p]])
                 ELSE lastChange
            /\ pc' = [pc EXCEPT ![p] = "persist"]
       ELSE /\ call' = [call EXCEPT ![p].out = "raised"]
            /\ pc' = [pc EXCEPT ![p] = "raised"]
            /\ UNCHANGED << fanReg, last_speed, lastChange >>
    /\ UNCHANGED << envVars, stateFile, exitCode, busOpen, steps, stop, temp,
                    req, speed, prev, ticks, hover, lock >>

\* lines 94-95: the register is written and then last_speed updated; a write
\* that raises releases the lock on its way out of the with block
HwWrite(p, ok) ==
    /\ pc[p] = "hw_write"
    /\ IF ok
       THEN /\ fanReg' = Some(speed[p])
            /\ last_speed' = [last_speed EXCEPT ![p] = NewLast(p)]
            /\ call' = [call EXCEPT ![p].hw = Some(speed[p])]
            /\ lastChange' =
                 IF p = Svc /\ ~IsNone(last_speed[p])
                 THEN Some([from |-> Val(last_speed[p]), to |-> speed[p]])
                 ELSE lastChange
            /\ pc' = [pc EXCEPT ![p] = "persist"]
            /\ UNCHANGED lock
       ELSE /\ call' = [call EXCEPT ![p].out = "raised"]
            /\ lock' = [lock EXCEPT ![p] = FALSE]
            /\ pc' = [pc EXCEPT ![p] = "raised"]
            /\ UNCHANGED << fanReg, last_speed, lastChange >>
    /\ UNCHANGED << envVars, stateFile, exitCode, busOpen, steps, stop, temp,
                    req, speed, prev, ticks, hover >>

\* write_state without its try/except: a failed write raises out of set_speed
\* before the line is printed
PersistRaises(p, ok) ==
    /\ pc[p] = "persist"
    /\ stateFile' = write_state(stateFile, speed[p], ok)
    /\ call' = [call EXCEPT ![p] =
                  IF ok
                  THEN Returned([@ EXCEPT !.stTried = TRUE,
                                          !.st = Some(speed[p]),
                                          !.lg = Some(speed[p])])
                  ELSE [@ EXCEPT !.stTried = TRUE, !.out = "raised"]]
    /\ lock' = [lock EXCEPT ![p] = FALSE]
    /\ pc' = [pc EXCEPT ![p] = IF ok THEN Return(p) ELSE "raised"]
    /\ UNCHANGED << envVars, fanReg, exitCode, busOpen, steps, last_speed,
                    stop, temp, req, speed, prev, ticks, histVars >>

\* lines 96-97: the state file is written, best effort, the line is printed
\* and the lock released
Persist(p, ok) ==
    /\ pc[p] = "persist"
    /\ stateFile' = write_state(stateFile, speed[p], ok)
    /\ call' = [call EXCEPT ![p] =
                  Returned([@ EXCEPT !.stTried = TRUE,
                                     !.st = IF ok THEN Some(speed[p]) ELSE None,
                                     !.lg = Some(speed[p])])]
    /\ lock' = [lock EXCEPT ![p] = FALSE]
    /\ pc' = [pc EXCEPT ![p] = Return(p)]
    /\ UNCHANGED << envVars, fanReg, exitCode, busOpen, steps, last_speed,
                    stop, temp, req, speed, prev, ticks, histVars >>

\* ------------------------------------------------------------ specification
Next ==
    \/ \E p \in Procs : MainStart(p)
    \/ \E p \in Procs, ok \in BOOLEAN : MainFan(p, ok)
    \/ \E p \in Procs : Dispatch(p)
    \/ \E p \in Procs : Unknown(p)
    \/ \E p \in Procs, sensor \in LoopSensors : Status(p, sensor)
    \/ \E p \in Procs : MainFinally(p)
    \/ \E p \in Procs : Propagate(p)
    \/ \E p \in Procs, ok \in BOOLEAN : RunService(p, ok)
    \/ \E p \in Procs, sensor \in LoopSensors : ServiceTick(p, sensor)
    \/ \E p \in Procs : Sleep(p)
    \/ \E p \in Procs : ServiceStop(p)
    \/ \E p \in Procs : Signal(p)
    \/ \E p \in Procs : SetSpeedEnter(p)
    \/ \E p \in Procs, ok \in BOOLEAN : HwWrite(p, ok)
    \/ \E p \in Procs, ok \in BOOLEAN : Persist(p, ok)

Spec == Init /\ [][Next]_vars

\* ------------------------------------------- calc_target on its own inputs
\* The service is at the top of its loop with any table a config file yields
\* and any last speed a state file yields; one iteration samples any
\* temperature of the range and computes the target.
LastSpeeds == { None } \cup { Some(v) : v \in (DutyMin - 5)..(DutyMax + 5) }
              \cup { Some(150) }

CalcInit ==
    /\ conf \in ConfFiles
    /\ stateFile = NoFile
    /\ fanReg = None
    /\ argv = [p \in Procs |-> IF p = Svc THEN <<"SERVICE">> ELSE <<>>]
    /\ pc = [p \in Procs |-> IF p = Svc THEN "loop" ELSE "exit"]
    /\ exitCode = [p \in Procs |-> IF p = Svc THEN None ELSE Some(2)]
    /\ busOpen = [p \in Procs |-> IF p = Svc THEN 2 ELSE 0]
    /\ steps = [p \in Procs |-> IF p = Svc THEN parse_conf(conf) ELSE <<>>]
    /\ last_speed \in { [p \in Procs |-> IF p = Svc THEN l ELSE None] :
                        l \in LastSpeeds }
    /\ lock = [p \in Procs |-> FALSE]
    /\ stop = [p \in Procs |-> FALSE]
    /\ temp = [p \in Procs |-> 0]
    /\ req = [p \in Procs |-> 0]
    /\ speed = [p \in Procs |-> 0]
    /\ call = [p \in Procs |-> NoCall]
    /\ prev = [p \in Procs |-> None]
    /\ ticks = 0
    /\ hover = Thresholds(steps[Svc])
    /\ lastChange = None

CalcNext == \E sensor \in AllSensors : ServiceTick(Svc, sensor)

CalcSpec == CalcInit /\ [][CalcNext]_vars

\* the state after calc_target(t, ss, last) in the service loop
Computed(ss, last) ==
    pc[Svc] = "set_speed" /\ steps[Svc] = ss /\ last_speed[Svc] = last

\* ------------------------------------------------------------------ claims
\* C1 (as claimed): with the default table, while every sample of the service
\* loop has stayed within the margin of one threshold, the service never
\* changes the speed from a to b and then straight back from b to a.
C1_NoToggleBack ==
    [][ ( /\ pc[Svc] = "hw_write"
          /\ pc'[Svc] = "persist"
          /\ steps[Svc] = DefaultSteps
          /\ hover # {}
          /\ ~IsNone(lastChange) )
        => ~( /\ Val(lastChange).to = Val(last_speed[Svc])
              /\ Val(lastChange).from = Val(last_speed'[Svc]) ) ]_vars

\* C2 (as claimed): with the default table and last speed 100, calc_target
\* returns 100 for 61 < T <= 65 and the table's own target for T <= 61.
C2_FallHeldDefault ==
    Computed(DefaultSteps, Some(100)) =>
        /\ (temp[Svc] > Deg(61) /\ temp[Svc] <= Deg(65)) => req[Svc] = 100
        /\ temp[Svc] <= Deg(61) => req[Svc] = Scan(temp[Svc], DefaultSteps, 0)

\* C3: with the default table and last speed 20, calc_target returns 20 for
\* 46 <= T < 50 and 35 for 50 <= T < 55.
C3_RiseDefault ==
    Computed(DefaultSteps, Some(20)) =>
        /\ (temp[Svc] >= Deg(46) /\ temp[Svc] < Deg(50)) => req[Svc] = 20
        /\ (temp[Svc] >= Deg(50) /\ temp[Svc] < Deg(55)) => req[Svc] = 35

C3_Witness ==
    /\ Computed(DefaultSteps, Some(20))
    /\ temp[Svc] = Deg(50)
    /\ req[Svc] = 35

\* the steps of ss whose threshold is at or under t
Reached(t, ss) == { i \in 1..Len(ss) : ss[i].temp_c <= t }

\* C4: with no last speed calc_target returns the duty cycle of the reached
\* step with the highest threshold, 0 when no step is reached; for the default
\* table 0, 20, 35, 55, 75, 100 over the ranges cut at 45, 50, 55, 60, 65; for
\* the empty table 0.
C4_Lookup ==
    (pc[Svc] = "set_speed" /\ IsNone(last_speed[Svc])) =>
        LET t == temp[Svc]
            ss == steps[Svc]
        IN  /\ Reached(t, ss) = {} => req[Svc] = 0
            /\ \A i \in Reached(t, ss) :
                 (\A j \in Reached(t, ss) : ss[j].temp_c <= ss[i].temp_c)
                 => req[Svc] = ss[i].speed
            /\ ss = <<>> => req[Svc] = 0
            /\ ss = DefaultSteps =>
                 req[Svc] = CASE t < Deg(45) -> 0
                              [] t >= Deg(45) /\ t < Deg(50) -> 20
                              [] t >= Deg(50) /\ t < Deg(55) -> 35
                              [] t >= Deg(55) /\ t < Deg(60) -> 55
                              [] t >= Deg(60) /\ t < Deg(65) -> 75
                              [] t >= Deg(65) -> 100

C4_Witness ==
    /\ Computed(DefaultSteps, None)
    /\ temp[Svc] = Deg(65)
    /\ req[Svc] = 100

\* a set_speed call of p has come to its end, by return or by exception
Ended(p) == call[p].out \in {"returned", "raised"}

\* C5: a set_speed call whose clamped argument equals last_speed is one step
\* that writes neither the register nor the state file, prints nothing,
\* leaves last_speed as it is and returns.
C5_DedupNoOp ==
    [][ \A p \in Procs :
          ( /\ pc[p] = "set_speed"
            /\ pc'[p] # "set_speed"
            /\ last_speed[p] = Some(IF req[p] > 100 THEN 100
                                    ELSE IF req[p] < 0 THEN 0 ELSE req[p]) )
          => /\ fanReg' = fanReg
             /\ stateFile' = stateFile
             /\ last_speed' = last_speed
             /\ call'[p].out = "returned"
             /\ IsNone(call'[p].hw)
             /\ ~call'[p].stTried
             /\ IsNone(call'[p].lg)
             /\ pc'[p] \in {"sleep", "main_finally"} ]_vars

C5_Witness ==
    \E p \in Procs :
        /\ call[p].out = "returned"
        /\ call[p].pre = Some(speed[p])
        /\ IsNone(call[p].hw)
        /\ ~IsNone(fanReg)

\* two set_speed calls in a row on p's controller, the same clamped value,
\* both returned
TwoInARow(p) ==
    /\ call[p].out = "returned"
    /\ ~IsNone(prev[p])
    /\ Val(prev[p]).speed = speed[p]

StWrites(c) == IF c.stTried THEN 1 ELSE 0

\* C6 (as claimed): two calls in a row with the same clamped value make
\* exactly one register write and one state-file write between them.
C6_ExactlyOne ==
    \A p \in Procs :
        TwoInARow(p) =>
            /\ Val(prev[p]).hw + Len(call[p].hw) = 1
            /\ Val(prev[p]).st + StWrites(call[p]) = 1

\* C6 (amended): the second of the two calls writes neither the register nor
\* the state file; the two together make one register write and one
\* write_state call when the value differed from last_speed before the first
\* call, and none when it was equal.
C6_SecondIsNoOp ==
    \A p \in Procs :
        TwoInARow(p) =>
            /\ IsNone(call[p].hw)
            /\ ~call[p].stTried
            /\ Val(prev[p]).hw + Len(call[p].hw)
                 = (IF Val(prev[p]).same THEN 0 ELSE 1)
            /\ Val(prev[p]).st + StWrites(call[p])
                 = (IF Val(prev[p]).same THEN 0 ELSE 1)

C6_Witness ==
    \E p \in Procs :
        /\ TwoInARow(p)
        /\ Val(prev[p]).hw = 1
        /\ Val(prev[p]).st = 1

\* what an ended call of p may have done when it is set_speed(v), v in range
EffectsOf(p, v) ==
    /\ call[p].hw \in {None, Some(v)}
    /\ call[p].st \in {None, Some(v)}
    /\ call[p].lg = call[p].hw
    /\ call[p].stTried = ~IsNone(call[p].hw)
    /\ call[p].out = "returned" => last_speed[p] = Some(v)
    /\ call[p].out = "raised" => last_speed[p] = call[p].pre
    /\ (call[p].out = "returned" /\ IsNone(call[p].hw)) <=> call[p].pre = Some(v)

\* C7: set_speed(n) with n > 100 does what set_speed(100) does and with
\* n < 0 what set_speed(0) does; the register never holds a value outside
\* 0..100.
C7_Clamping ==
    /\ fanReg \in {None} \cup { Some(v) : v \in 0..100 }
    /\ \A p \in Procs :
         Ended(p) =>
            /\ call[p].req > 100 => EffectsOf(p, 100)
            /\ call[p].req < 0 => EffectsOf(p, 0)

C7_Witness ==
    /\ call[Cli].out = "returned"
    /\ call[Cli].req = 150
    /\ call[Cli].hw = Some(100)
    /\ fanReg = Some(100)

\* C8: a set_speed call whose register write raised has propagated the
\* error, left last_speed as it was before the call, has not written the
\* state file and has printed nothing.
C8_NoPartialCommit ==
    \A p \in Procs :
        call[p].out = "raised" =>
            /\ pc[p] \in {"raised", "exit"}
            /\ last_speed[p] = call[p].pre
            /\ IsNone(call[p].hw)
            /\ ~call[p].stTried
            /\ IsNone(call[p].st)
            /\ IsNone(call[p].lg)
            /\ ~lock[p]

C8_Witness ==
    \E p \in Procs :
        /\ call[p].out = "raised"
        /\ ~IsNone(call[p].pre)
        /\ call[p].pre # Some(speed[p])
        /\ pc[p] = "raised"

\* C9 (as claimed): after a register write has raised in an iteration of the
\* service loop, the loop is still running: the service is at the top of the
\* loop, in set_speed or asleep, with its bus handles open.
C9_ServiceSurvives ==
    (Cmd(Svc) = "SERVICE" /\ call[Svc].out = "raised") =>
        /\ pc[Svc] \in {"loop", "sleep", "set_speed", "hw_write", "persist"}
        /\ busOpen[Svc] = 2

\* p's controller is in its first set_speed call, or has ended it
FirstCall(p) == call[p].out # "idle" /\ IsNone(prev[p])

\* C10 (as claimed): a controller built from a state file holding the integer
\* v has last_speed = v and its set_speed(v) is a no-op; one built from an
\* absent or unparseable state file writes the register in its first
\* set_speed call whatever the value, unless the write raises.
C10_StartupRecovery ==
    \A p \in Procs :
        FirstCall(p) =>
            /\ (~IsNone(call[p].pre) /\ call[p].req = Val(call[p].pre))
                 => (call[p].out = "returned" /\ IsNone(call[p].hw))
            /\ (IsNone(call[p].pre) /\ call[p].out = "returned")
                 => ~IsNone(call[p].hw)

\* p is inside set_speed's with block, the lock of its controller held
InCritical(p) == pc[p] \in {"hw_write", "persist"}

\* C11 (as claimed): the service loop and a one-shot command are never both
\* inside set_speed's critical section.
C11_MutualExclusion ==
    \A p \in Procs, q \in Procs :
        (InCritical(p) /\ InCritical(q)) => p = q

\* p's controller is alive and between set_speed calls, the last of which
\* returned after writing the register
Settled(p) ==
    /\ pc[p] \in {"sleep", "loop", "main_finally"}
    /\ call[p].out = "returned"
    /\ ~IsNone(call[p].hw)

\* C12 (as claimed): a controller that has completed a successful set_speed
\* holds in last_speed the duty cycle last written to the register.
C12_Authoritative ==
    \A p \in Procs : Settled(p) => last_speed[p] = fanReg

\* no command word, an unknown one, or FANSPEED without its argument
Invalid(p) ==
    \/ Len(argv[p]) < 1
    \/ Cmd(p) \notin {"SERVICE", "FANON", "FANOFF", "FANSPEED", "STATUS"}
    \/ Cmd(p) = "FANSPEED" /\ Len(argv[p]) < 2

\* C13 (as claimed): an invalid invocation never has the bus open, never
\* writes the register and ends with exit code 2.
C13_InvalidInvocation ==
    \A p \in Procs :
        Invalid(p) =>
            /\ busOpen[p] = 0
            /\ call[p].out = "idle"
            /\ pc[p] = "exit" => exitCode[p] = Some(2)

\* the last set_speed call of p wrote the register and then failed to write
\* the state file
PersistFailed(p) ==
    ~IsNone(call[p].hw) /\ call[p].stTried /\ IsNone(call[p].st)

\* C14: a set_speed call whose register write succeeded and whose state-file
\* write failed has returned without raising, with last_speed updated to the
\* new value and the line for it printed.
C14_BestEffortPersist ==
    \A p \in Procs :
        PersistFailed(p) =>
            /\ call[p].out = "returned"
            /\ pc[p] # "raised"
            /\ pc[p] = "exit" => exitCode[p] = Some(0)
            /\ last_speed[p] = call[p].hw
            /\ call[p].lg = call[p].hw
            /\ call[p].pre # call[p].hw

C14_Witness ==
    \E p \in Procs :
        /\ PersistFailed(p)
        /\ pc[p] \in {"sleep", "main_finally"}
        /\ read_state(stateFile) # last_speed[p]

\* the config file is there and none of its lines is a valid step
NoValidStep(cf) ==
    cf.exists /\ \A i \in 1..Len(cf.lines) : IsNone(LineStep(cf.lines[i]))

\* C15 (as claimed): with the config file absent, or present without a valid
\* step, the service runs on the default table.
C15_ConfigFallback ==
    (HandlersInstalled(Svc) /\ (~conf.exists \/ NoValidStep(conf)))
        => steps[Svc] = DefaultSteps

\* C17 (as claimed): a stop signal that arrives while the service sleeps ends
\* the sleep with that step, without the rest of the interval.
C17_SleepInterrupted ==
    [][ (pc[Svc] = "sleep" /\ ~stop[Svc] /\ stop'[Svc])
        => pc'[Svc] # "sleep" ]_vars

\* C18 (as claimed): last_speed is unknown or an integer of 0..100.
C18_Range ==
    \A p \in Procs :
        IsNone(last_speed[p]) \/ Val(last_speed[p]) \in 0..100

\* C20: the lock of a controller is held only inside the with block; after a
\* register write that raised it is free, so that set_speed can be entered
\* again.
C20_LockReleased ==
    \A p \in Procs :
        /\ lock[p] => InCritical(p)
        /\ call[p].out = "raised" => ~lock[p]

C20_Witness ==
    \E p \in Procs :
        /\ call[p].out = "raised"
        /\ IsNone(call[p].pre)
        /\ pc[p] = "exit"
        /\ ~lock[p]

\* ------------------------------------------- calc_target on generated tables
\* Every config file of up to MaxLines valid lines over a few thresholds and
\* duty cycles, in any order, besides the files above.
GenLines ==
    { Fields(<<IntLit(d), IntLit(v)>>) : d \in {45, 50, 60}, v \in {20, 60, 100} }

GenFiles ==
    { [exists |-> TRUE, lines |-> ls] :
        ls \in UNION { [1..n -> GenLines] : n \in 0..MaxLines } }

TableLasts ==
    { None } \cup { Some(v) : v \in {-5, 0, 20, 30, 40, 60, 80, 100, 150} }

TableInit ==
    /\ conf \in ConfFiles \cup GenFiles
    /\ stateFile = NoFile
    /\ fanReg = None
    /\ argv = [p \in Procs |-> IF p = Svc THEN <<"SERVICE">> ELSE <<>>]
    /\ pc = [p \in Procs |-> IF p = Svc THEN "loop" ELSE "exit"]
    /\ exitCode = [p \in Procs |-> IF p = Svc THEN None ELSE Some(2)]
    /\ busOpen = [p \in Procs |-> IF p = Svc THEN 2 ELSE 0]
    /\ steps = [p \in Procs |-> IF p = Svc THEN parse_conf(conf) ELSE <<>>]
    /\ last_speed \in { [p \in Procs |-> IF p = Svc THEN l ELSE None] :
                        l \in TableLasts }
    /\ lock = [p \in Procs |-> FALSE]
    /\ stop = [p \in Procs |-> FALSE]
    /\ temp = [p \in Procs |-> 0]
    /\ req = [p \in Procs |-> 0]
    /\ speed = [p \in Procs |-> 0]
    /\ call = [p \in Procs |-> NoCall]
    /\ prev = [p \in Procs |-> None]
    /\ ticks = 0
    /\ hover = Thresholds(steps[Svc])
    /\ lastChange = None

TableNext == \E sensor \in AllSensors : ServiceTick(Svc, sensor)

TableSpec == TableInit /\ [][TableNext]_vars

\* ss is sorted ascending by temperature
Sorted(ss) == \A i \in 1..Len(ss), j \in 1..Len(ss) :
                  i < j => ss[i].temp_c <= ss[j].temp_c

\* the duty cycles of ss do not fall as the temperature rises
Monotone(ss) == \A i \in 1..Len(ss), j \in 1..Len(ss) :
                    i < j => ss[i].speed <= ss[j].speed

\* the plain lookup: the duty cycle of the last reached step, 0 without one
PlainLookup(t, ss) ==
    IF Reached(t, ss) = {} THEN 0
    ELSE ss[CHOOSE i \in Reached(t, ss) : \A j \in Reached(t, ss) : j <= i].speed

SvcRun ==
    \/ MainStart(Svc)
    \/ \E ok \in BOOLEAN : MainFan(Svc, ok)
    \/ Dispatch(Svc)
    \/ MainFinally(Svc)
    \/ Propagate(Svc)
    \/ \E ok \in BOOLEAN : RunService(Svc, ok)
    \/ \E sensor \in LoopSensors : ServiceTick(Svc, sensor)
    \/ Sleep(Svc)
    \/ ServiceStop(Svc)
    \/ SetSpeedEnter(Svc)
    \/ \E ok \in BOOLEAN : HwWrite(Svc, ok)
    \/ \E ok \in BOOLEAN : Persist(Svc, ok)

\* a step of the one-shot process running FANON beside the service
CliRun ==
    \/ MainStart(Cli)
    \/ \E ok \in BOOLEAN : MainFan(Cli, ok)
    \/ Dispatch(Cli)
    \/ MainFinally(Cli)
    \/ Propagate(Cli)
    \/ SetSpeedEnter(Cli)
    \/ \E ok \in BOOLEAN : HwWrite(Cli, ok)
    \/ \E ok \in BOOLEAN : Persist(Cli, ok)

LiveInit == Init /\ argv[Cli] = <<"fanon">>

LiveNext == SvcRun \/ Signal(Svc) \/ CliRun

\* The service process keeps running while it can: the register write and
\* the file write return or raise, and the sleep ends.
LiveSpec == LiveInit /\ [][LiveNext]_vars /\ WF_vars(SvcRun)

\* the service is inside an iteration's set_speed call
InSetSpeed(p) == pc[p] \in {"set_speed", "hw_write", "persist"}

\* C16: the loop starts with the flag clear; a signal during an iteration
\* leaves the iteration to finish its set_speed call; once the flag is set no
\* iteration is started; and the service then comes to its end with its bus
\* handles closed.
C16_CooperativeStop ==
    /\ [][ /\ (pc[Svc] = "run_service" /\ pc'[Svc] = "loop") => ~stop'[Svc]
           /\ (stop[Svc] /\ InSetSpeed(Svc) /\ pc'[Svc] # pc[Svc])
                => pc'[Svc] \in {"hw_write", "persist", "sleep", "raised"}
           /\ stop[Svc] => ticks' = ticks
           /\ (pc[Svc] = "loop" /\ pc'[Svc] = "main_finally") => stop[Svc] ]_vars
    /\ stop[Svc] ~> (pc[Svc] = "exit" /\ busOpen[Svc] = 0)

C16_Witness ==
    /\ stop[Svc]
    /\ pc[Svc] = "exit"
    /\ busOpen[Svc] = 0
    /\ exitCode[Svc] = Some(0)
    /\ call[Svc].out = "returned"
    /\ ~IsNone(call[Svc].hw)

====
